---- MODULE Spec2Model ----
(***************************************************************************)
(* A model of PythonWordPressContentMigration.py: one run of main(), i.e.  *)
(* WordPressMigrator.migrate_content() with the site responses chosen      *)
(* nondeterministically at every request.                                  *)
(*                                                                         *)
(* Strings on which the code does substring tests or splits (URLs, <loc>   *)
(* texts) are sequences of tokens; "/" is a token of its own, so that      *)
(* '/posts/' in url is a sub-sequence test and url.split('/') a split at   *)
(* the "/" tokens.  None (a <loc> element without text) is <<>>.           *)
(* KeyboardInterrupt (main, lines 468-470) is not modelled.                *)
(***************************************************************************)
EXTENDS Integers, Sequences, FiniteSets, TLC

(* ------------------------------ bounds --------------------------------- *)
\* most <loc> entries of one leaf document
MaxLocs == 1
\* most <loc> entries (children) of one index-of-indexes
MaxChildren == 2
\* most posts the source's listing API holds over all its pages
MaxPosts == 2
\* the most records an earlier run has left at the destination
MaxPrior == 1

(* ------------------------- strings as tokens --------------------------- *)
None == <<>>

\* `sub in s` of Python, on token sequences
Contains(s, sub) ==
    \E i \in 1..(Len(s) - Len(sub) + 1) : SubSeq(s, i, i + Len(sub) - 1) = sub

\* s.lower(), token by token
LowerTok(t) == IF t = "Post" THEN "post" ELSE t
Lower(s) == [i \in 1..Len(s) |-> LowerTok(s[i])]

\* s.split(sep)[-1]: what follows the last occurrence of sep (all of s if none)
RECURSIVE SplitLast(_, _)
SplitLast(s, sep) ==
    IF Contains(s, sep)
    THEN LET i == CHOOSE j \in 1..(Len(s) - Len(sep) + 1) :
                     /\ SubSeq(s, j, j + Len(sep) - 1) = sep
                     /\ \A k \in 1..(j - 1) : SubSeq(s, k, k + Len(sep) - 1) # sep
         IN SplitLast(SubSeq(s, i + Len(sep), Len(s)), sep)
    ELSE s

\* s.endswith('/')
EndsWithSlash(s) == Len(s) > 0 /\ s[Len(s)] = "/"

Range(s) == {s[i] : i \in 1..Len(s)}
SeqsUpTo(S, n) == UNION {[1..k -> S] : k \in 0..n}
\* list(a_set): the elements of the set, each once, in some order
Orderings(S) == {s \in [1..Cardinality(S) -> S] : \A i, j \in 1..Cardinality(S) : s[i] = s[j] => i = j}

(* ------------------------------ the sites ------------------------------ *)
UrlPostsA == <<"src", "/", "posts", "/", "a", "/">>
UrlById   == <<"src", "/", "?p=", "7">>
UrlBlogB  == <<"src", "/", "blog", "/", "b">>
UrlAbout  == <<"src", "/", "about", "/">>
LeafUrls  == {UrlPostsA, UrlById, UrlBlogB, UrlAbout}
\* the text of a <loc> entry of a leaf document
LocTexts  == LeafUrls \cup {None}

SubPost   == <<"src", "/", "post", "-sitemap.xml">>
SubUpper  == <<"src", "/", "wp-sitemap-", "Post", "s-1.xml">>
SubPage   == <<"src", "/", "page", "-sitemap.xml">>
\* the text of a <loc> entry of an index-of-indexes
ChildTexts == {SubPost, SubUpper, SubPage, None}

potential_sitemaps ==
    << <<"/", "sitemap.xml">>, <<"/", "wp-sitemap.xml">>,
       <<"/", "post-sitemap.xml">>, <<"/", "wp-sitemap-posts-post-1.xml">> >>

\* what lines 234-236 can give: an exception (request, status or parse), or a
\* parsed document, an index-of-indexes or not, with its <loc> texts in order
SitemapResponses ==
    {[kind |-> "error", locs |-> <<>>]}
    \cup {[kind |-> "urlset", locs |-> l] : l \in SeqsUpTo(LocTexts, MaxLocs)}
    \cup {[kind |-> "sitemapindex", locs |-> l] : l \in SeqsUpTo(ChildTexts, MaxChildren)}

\* what lines 243-244 can give: an exception, or a parsed child document; its
\* <loc> texts may themselves name a sitemap (line 245 does not look at the
\* root tag of a child)
SubResponses ==
    {[kind |-> "error", locs |-> <<>>]}
    \cup {[kind |-> "urlset", locs |-> l] : l \in SeqsUpTo(LocTexts \cup {SubPost}, MaxLocs)}

\* a raw item of the source API, as far as the code looks at it: its title
\* ("ok": a mapping with 'rendered'; "missing": no usable 'rendered' in a
\* mapping or no title key; "malformed": not a mapping) and its embedded
\* featured media ("none", "url": with source_url, "nourl": without)
Post(t, m) == [title |-> t, media |-> m]
NullPost == Post("null", "null")
Posts == {Post("ok", "none"), Post("ok", "url"), Post("ok", "nourl"),
          Post("missing", "none"), Post("malformed", "none")}

\* the IDs the destination assigns
NoId == [kind |-> "none", n |-> 0]
PostId(n)  == [kind |-> "post", n |-> n]
MediaId(n) == [kind |-> "media", n |-> n]

\* one request (or time.sleep) of the enumerator or of the transfer phase: the
\* item (or the page) it is for, the site it goes to, whether it carries self.auth,
\* its argument (slug or post id), the ID it targets, its result and the ID in
\* the response
Ev(op, item, site, auth, arg, target, res, id) ==
    [op |-> op, item |-> item, site |-> site, auth |-> auth, arg |-> arg,
     target |-> target, res |-> res, id |-> id]

\* lines 33 and 39-40: the session, with no request in flight
Idle == [op |-> "none", method |-> "none", statuses |-> <<>>, delays |-> <<>>,
         state |-> "idle"]

\* no call of handle_featured_image on its own
NoResult == [stored |-> FALSE, evs |-> <<>>]
NotCalled == [state |-> "none", post |-> NullPost, new_post_id |-> NoId, item |-> 0,
              dl |-> "none", up |-> "error", ln |-> "error", n |-> 0,
              first_done |-> FALSE, first |-> NoResult,
              effect_done |-> FALSE, effect |-> NoResult]

VARIABLES
    pc,             \* where main / migrate_content stands
    sitemap_calls,  \* calls of get_sitemap_urls so far
    api_calls,      \* calls of get_all_posts_via_api so far
    probe_i,        \* get_all_sitemaps: index into potential_sitemaps
    sitemap_urls,   \* get_all_sitemaps: its result
    read_i,         \* get_sitemap_urls: index into sitemap_urls
    children,       \* get_sitemap_urls: <loc> texts of the current index still to visit
    urls,           \* get_sitemap_urls: the set urls
    leafSeen,       \* history: every <loc> text read from a processed leaf or child document
    fetched,        \* history: the requests of the latest discovery step
    post_urls,      \* migrate_content: post_urls
    page,           \* get_all_posts_via_api: page
    all_posts,      \* get_all_posts_via_api: all_posts, then migrate_content: posts
    idx,            \* the transfer loop: index of the next item
    migration_task, \* the progress task: created, total, completed
    dest_posts,     \* records the destination created
    dest_media,     \* media the destination stored
    attempted,      \* history: the items whose loop body started, in order
    outcomes,       \* history: per attempted item, how its loop body ended and the post it had
    served,         \* history: the non-empty pages the source's listing answered with
    page_reqs,      \* history: requests and sleeps of get_all_posts_via_api
    reqs,           \* history: requests and sleeps of the transfer phase, item by item
    send,           \* self.session: the request in flight, the statuses it met, the pauses made
    first_urls,     \* history: the list get_sitemap_urls gave an earlier run, <<>> without one
    handled         \* one call of handle_featured_image: its arguments, and what either
                    \* definition of the class does with them

migration == <<pc, sitemap_calls, api_calls, probe_i, sitemap_urls, read_i, children, urls,
               leafSeen, fetched, post_urls, page, all_posts, idx, migration_task,
               dest_posts, dest_media, attempted, outcomes, served, page_reqs, reqs>>

vars == <<migration, send, first_urls, handled>>

discovery == <<probe_i, sitemap_urls, read_i, children, urls, leafSeen>>
transfer  == <<idx, migration_task, dest_posts, dest_media, attempted, outcomes, served, page_reqs, reqs>>

Init ==
    /\ pc = "main"
    /\ sitemap_calls = 0
    /\ api_calls = 0
    /\ probe_i = 1
    /\ sitemap_urls = <<>>
    /\ read_i = 1
    /\ children = <<>>
    /\ urls = {}
    /\ leafSeen = {}
    /\ fetched = <<>>
    /\ post_urls = <<>>
    /\ page = 1
    /\ all_posts = <<>>
    /\ idx = 1
    /\ migration_task = [created |-> FALSE, total |-> 0, completed |-> 0]
    /\ dest_posts = 0
    /\ dest_media = 0
    /\ attempted = <<>>
    /\ outcomes = <<>>
    /\ served = <<>>
    /\ page_reqs = <<>>
    /\ reqs = <<>>
    /\ send = Idle
    /\ first_urls = <<>>
    /\ handled = NotCalled

\* a request of the discovery phase
Get(op, target) == [op |-> op, target |-> target, auth |-> FALSE]

(* ------------------------- discovery: index reader ---------------------- *)
\* main calls migrate_content, which first calls get_sitemap_urls, which
\* calls get_all_sitemaps
CallGetSitemapUrls ==
    /\ pc = "main"
    /\ pc' = "probe"
    /\ sitemap_calls' = sitemap_calls + 1
    /\ UNCHANGED <<api_calls, discovery, fetched, post_urls, page, all_posts, transfer>>
    /\ UNCHANGED <<send, first_urls, handled>>

\* get_all_sitemaps: one turn of its loop
ProbeSitemap ==
    /\ pc = "probe"
    /\ probe_i <= Len(potential_sitemaps)
    /\ \E ok \in BOOLEAN :
          sitemap_urls' = IF ok THEN Append(sitemap_urls, potential_sitemaps[probe_i])
                          ELSE sitemap_urls
    /\ fetched' = <<Get("probe", potential_sitemaps[probe_i])>>
    /\ probe_i' = probe_i + 1
    /\ UNCHANGED <<pc, sitemap_calls, api_calls, read_i, children, urls, leafSeen,
                   post_urls, page, all_posts, transfer>>
    /\ UNCHANGED <<send, first_urls, handled>>

\* get_all_sitemaps returns; get_sitemap_urls returns [] at once if it found nothing
ProbesDone ==
    /\ pc = "probe"
    /\ probe_i > Len(potential_sitemaps)
    /\ pc' = IF sitemap_urls = <<>> THEN "returned" ELSE "read"
    /\ UNCHANGED <<sitemap_calls, api_calls, discovery, fetched, post_urls, page,
                   all_posts, transfer>>
    /\ UNCHANGED <<send, first_urls, handled>>

\* urls.update([...])
Update(s, locs) == s \cup Range(locs)

\* get_sitemap_urls: one turn of the loop over sitemap_urls, up to the point
\* where the children of an index-of-indexes are visited
ReadSitemap ==
    /\ pc = "read"
    /\ read_i <= Len(sitemap_urls)
    /\ fetched' = <<Get("sitemap", sitemap_urls[read_i])>>
    /\ \E r \in SitemapResponses :
          CASE r.kind = "error" ->
                  /\ read_i' = read_i + 1
                  /\ UNCHANGED <<pc, children, urls, leafSeen>>
            [] r.kind = "sitemapindex" ->
                  /\ pc' = "sub"
                  /\ children' = r.locs
                  /\ UNCHANGED <<read_i, urls, leafSeen>>
            [] r.kind = "urlset" ->
                  /\ urls' = Update(urls, r.locs)
                  /\ leafSeen' = leafSeen \cup Range(r.locs)
                  /\ read_i' = read_i + 1
                  /\ UNCHANGED <<pc, children>>
    /\ UNCHANGED <<sitemap_calls, api_calls, probe_i, sitemap_urls, post_urls, page,
                   all_posts, transfer>>
    /\ UNCHANGED <<send, first_urls, handled>>

\* a faulty variant of IsPostSitemap: the test without lower()
IsPostSitemap_exact(text) == Contains(text, <<"post">>)

\* line 242: the test that selects a child of an index-of-indexes
IsPostSitemap(text) == Contains(Lower(text), <<"post">>)

\* get_sitemap_urls: one turn of the loop over the children of an index
SubSitemap ==
    /\ pc = "sub"
    /\ children # <<>>
    /\ LET c == Head(children) IN
       IF c = None
       THEN \* None.lower() raises; line 256 catches it, the other children are left
            /\ pc' = "read"
            /\ read_i' = read_i + 1
            /\ children' = <<>>
            /\ UNCHANGED <<urls, leafSeen, fetched>>
       ELSE IF IsPostSitemap(c)
       THEN /\ fetched' = Append(fetched, Get("sub", c))
            /\ \E r \in SubResponses :
                  IF r.kind = "error"
                  THEN /\ pc' = "read"
                       /\ read_i' = read_i + 1
                       /\ children' = <<>>
                       /\ UNCHANGED <<urls, leafSeen>>
                  ELSE /\ urls' = Update(urls, r.locs)
                       /\ leafSeen' = leafSeen \cup Range(r.locs)
                       /\ children' = Tail(children)
                       /\ UNCHANGED <<pc, read_i>>
       ELSE /\ children' = Tail(children)
            /\ UNCHANGED <<pc, read_i, urls, leafSeen, fetched>>
    /\ UNCHANGED <<sitemap_calls, api_calls, probe_i, sitemap_urls, post_urls, page,
                   all_posts, transfer>>
    /\ UNCHANGED <<send, first_urls, handled>>

\* the loop over the children ends
SubDone ==
    /\ pc = "sub"
    /\ children = <<>>
    /\ pc' = "read"
    /\ read_i' = read_i + 1
    /\ UNCHANGED <<sitemap_calls, api_calls, probe_i, sitemap_urls, children, urls,
                   leafSeen, fetched, post_urls, page, all_posts, transfer>>
    /\ UNCHANGED <<send, first_urls, handled>>

\* line 261: the content-path filter
IsPostUrl(url) ==
    \/ Contains(url, <<"/", "posts", "/">>)
    \/ Contains(url, <<"/", "?p=">>)
    \/ Contains(url, <<"/", "blog", "/">>)

\* lines 260-262: the filter raises TypeError on None, outside any try, and the
\* error reaches main; otherwise get_sitemap_urls returns the list of the set
FilterPostUrls ==
    /\ pc = "read"
    /\ read_i > Len(sitemap_urls)
    /\ IF None \in urls
       THEN /\ pc' = "exit1"
            /\ UNCHANGED post_urls
       ELSE /\ pc' = "returned"
            /\ post_urls' \in Orderings({u \in urls : IsPostUrl(u)})
    /\ UNCHANGED <<sitemap_calls, api_calls, discovery, fetched, page, all_posts, transfer>>
    /\ UNCHANGED <<send, first_urls, handled>>

\* a faulty variant of UseSitemap: sitemap mode whatever the list
UseSitemap_always(l) == TRUE

\* line 316: `if post_urls:`
UseSitemap(l) == l # <<>>

\* lines 314-321 and 341-345: get_sitemap_urls has returned (its locals are
\* gone); sitemap mode over a non-empty list, else the API fallback
Branch ==
    /\ pc = "returned"
    /\ IF UseSitemap(post_urls)
       THEN /\ pc' = "url_loop"
            /\ migration_task' = [created |-> TRUE, total |-> Len(post_urls), completed |-> 0]
            /\ UNCHANGED api_calls
       ELSE /\ pc' = "api"
            /\ api_calls' = api_calls + 1
            /\ UNCHANGED migration_task
    /\ probe_i' = 1
    /\ sitemap_urls' = <<>>
    /\ read_i' = 1
    /\ children' = <<>>
    /\ urls' = {}
    /\ leafSeen' = {}
    /\ fetched' = <<>>
    /\ UNCHANGED <<sitemap_calls, post_urls, page, all_posts, idx, dest_posts, dest_media,
                   attempted, outcomes, served, page_reqs, reqs>>
    /\ UNCHANGED <<send, first_urls, handled>>

(* ---------------------- discovery: paginated enumerator ----------------- *)
\* what lines 280-287 can give for one page: HTTP 400, an exception (request,
\* status or parse), or a list of posts
PageResponses ==
    {[kind |-> "400", posts |-> <<>>], [kind |-> "error", posts |-> <<>>]}
    \cup {[kind |-> "page", posts |-> p] : p \in SeqsUpTo(Posts, MaxPosts)}

PageGet(p, res) == Ev("page", p, "source", FALSE, None, NoId, res, NoId)
Sleep(item)     == Ev("sleep", item, "none", FALSE, None, NoId, "1s", NoId)

\* a faulty variant of Extend: the new page replaces what was collected
Extend_replace(all, posts) == posts

\* line 292: all_posts.extend(posts)
Extend(all, posts) == all \o posts

\* a faulty variant of NextPage: no pause between two page requests
NextPage_nosleep(p) == [page |-> p + 1, evs |-> <<>>]

\* lines 292-294: after a non-empty page
NextPage(p) == [page |-> p + 1, evs |-> <<Sleep(p)>>]

\* get_all_posts_via_api: one turn of its loop
FetchPage ==
    /\ pc = "api"
    /\ \E r \in PageResponses :
          /\ Len(all_posts) + Len(r.posts) <= MaxPosts
          /\ IF r.kind = "page" /\ r.posts # <<>>
             THEN /\ all_posts' = Extend(all_posts, r.posts)
                  /\ served' = Append(served, r.posts)
                  /\ page' = NextPage(page).page
                  /\ page_reqs' = page_reqs \o <<PageGet(page, "ok")>> \o NextPage(page).evs
                  /\ UNCHANGED pc
             ELSE /\ pc' = "api_returned"
                  /\ page_reqs' = Append(page_reqs, PageGet(page, IF r.kind = "page" THEN "empty" ELSE r.kind))
                  /\ UNCHANGED <<all_posts, served, page>>
    /\ UNCHANGED <<sitemap_calls, api_calls, discovery, fetched, post_urls, idx,
                   migration_task, dest_posts, dest_media, attempted, outcomes, reqs>>
    /\ UNCHANGED <<send, first_urls, handled>>

\* lines 346-356: nothing found: "No posts found to migrate!", migrate_content
\* returns and main goes on to "Migration completed successfully!"
ApiReturned ==
    /\ pc = "api_returned"
    /\ IF all_posts = <<>>
       THEN /\ pc' = "exit0"
            /\ UNCHANGED migration_task
       ELSE /\ pc' = "post_loop"
            /\ migration_task' = [created |-> TRUE, total |-> Len(all_posts), completed |-> 0]
    /\ UNCHANGED <<sitemap_calls, api_calls, discovery, fetched, post_urls, page, all_posts,
                   idx, dest_posts, dest_media, attempted, outcomes, served, page_reqs, reqs>>
    /\ UNCHANGED <<send, first_urls, handled>>

(* ------------------------------ content resolver ------------------------ *)
\* line 50: the slug of a URL
Slug(url) ==
    IF EndsWithSlash(url) THEN SplitLast(SubSeq(url, 1, Len(url) - 1), <<"/">>)
    ELSE SplitLast(url, <<"/">>)

LookupOutcomes == {"error", "non200", "empty", "match"}
\* the item request gives a post, or fails (NullPost)
FetchOutcomes == Posts \cup {NullPost}

\* a faulty variant of FetchPost: the item request is made without a post id too
FetchPost_unchecked(post_id, item, ft) ==
    [post |-> ft,
     evs |-> <<Ev("fetch", item, "source", FALSE, post_id, NoId,
                  IF ft = NullPost THEN "error" ELSE "ok", NoId)>>]

\* lines 59-65: the item request for a known post id
FetchPost(post_id, item, ft) ==
    IF post_id = None THEN [post |-> NullPost, evs |-> <<>>]
    ELSE [post |-> ft,
          evs |-> <<Ev("fetch", item, "source", FALSE, post_id, NoId,
                       IF ft = NullPost THEN "error" ELSE "ok", NoId)>>]

\* get_post_by_url: the post, or NullPost for None, and the requests made
get_post_by_url(url, item, lk, ft) ==
    IF Contains(url, <<"/", "?p=">>)
    THEN FetchPost(SplitLast(url, <<"/", "?p=">>), item, ft)
    ELSE LET look == Ev("lookup", item, "source", FALSE, Slug(url), NoId, lk, NoId)
             got  == FetchPost(IF lk = "match" THEN <<"id">> ELSE None, item, ft)
         IN [post |-> got.post, evs |-> <<look>> \o got.evs]

(* ------------------------------ transfer engine ------------------------- *)
CreateOutcomes == {"error", "noid", "ok"}
MediaOutcomes  == {"content", "none"}
UploadOutcomes == {"error", "noid", "ok"}
LinkOutcomes   == {"error", "ok"}

\* a faulty variant of create_post: an item the destination holds a record for
\* already is taken as migrated and no request is sent
create_post_skip_existing(post_data, item, co, n) ==
    IF post_data.title # "ok"
    THEN [raised |-> TRUE, stored |-> FALSE, id |-> NoId, evs |-> <<>>]
    ELSE IF n >= item
    THEN [raised |-> FALSE, stored |-> FALSE, id |-> PostId(item), evs |-> <<>>]
    ELSE LET id == IF co = "ok" THEN PostId(n + 1) ELSE NoId
         IN [raised |-> co = "error", stored |-> co # "error", id |-> id,
             evs |-> <<Ev("create", item, "dest", TRUE, None, NoId, co, id)>>]

\* create_post: raises on a post without the fields of lines 96-99 before any
\* request; else one authenticated request. `n` records exist already.
\* stored: the destination created a record; id: the 'id' of the JSON returned
create_post(post_data, item, co, n) ==
    IF post_data.title # "ok"
    THEN [raised |-> TRUE, stored |-> FALSE, id |-> NoId, evs |-> <<>>]
    ELSE LET id == IF co = "ok" THEN PostId(n + 1) ELSE NoId
         IN [raised |-> co = "error", stored |-> co # "error", id |-> id,
             evs |-> <<Ev("create", item, "dest", TRUE, None, NoId, co, id)>>]

\* a faulty variant of get_media: the download carries self.auth
get_media_auth(item, dl) ==
    [content |-> dl,
     evs |-> <<Ev("download", item, "media", TRUE, None, NoId,
                  IF dl = "content" THEN "ok" ELSE "error", NoId)>>]

\* get_media: the content, or None
get_media(item, dl) ==
    [content |-> dl,
     evs |-> <<Ev("download", item, "media", FALSE, None, NoId,
                  IF dl = "content" THEN "ok" ELSE "error", NoId)>>]

\* a faulty variant of upload_media: no test of media_content before the request
upload_media_unchecked(media_content, item, up, n) ==
    LET id == IF up = "ok" THEN MediaId(n + 1) ELSE NoId
    IN [raised |-> up = "error", stored |-> up # "error", id |-> id,
        evs |-> <<Ev("upload", item, "dest", TRUE, None, NoId, up, id)>>]

\* upload_media: raises ValueError without content, before any request
upload_media(media_content, item, up, n) ==
    IF media_content = "none"
    THEN [raised |-> TRUE, stored |-> FALSE, id |-> NoId, evs |-> <<>>]
    ELSE LET id == IF up = "ok" THEN MediaId(n + 1) ELSE NoId
         IN [raised |-> up = "error", stored |-> up # "error", id |-> id,
             evs |-> <<Ev("upload", item, "dest", TRUE, None, NoId, up, id)>>]

\* a faulty variant of set_featured_image: the two IDs swapped in the request
set_featured_image_swapped(post_id, media_id, item, ln) ==
    <<Ev("link", item, "dest", TRUE, None, media_id, ln, post_id)>>

\* set_featured_image: one authenticated request to the record post_id; never raises
set_featured_image(post_id, media_id, item, ln) ==
    <<Ev("link", item, "dest", TRUE, None, post_id, ln, media_id)>>

\* a faulty variant of handle_featured_image: the uploaded media is never linked
handle_featured_image_nolink(post, new_post_id, item, dl, up, ln, n) ==
    IF post.media # "url"
    THEN [stored |-> FALSE, evs |-> <<>>]
    ELSE LET gm == get_media(item, dl)
             um == upload_media(gm.content, item, up, n)
         IN [stored |-> um.stored, evs |-> gm.evs \o um.evs]

\* handle_featured_image, the definition in effect (lines 371-386): every
\* exception is caught; uploaded_media['id'] raises KeyError without an id
handle_featured_image(post, new_post_id, item, dl, up, ln, n) ==
    IF post.media # "url"
    THEN [stored |-> FALSE, evs |-> <<>>]
    ELSE LET gm == get_media(item, dl)
             um == upload_media(gm.content, item, up, n)
         IN [stored |-> um.stored,
             evs |-> gm.evs \o um.evs \o
                     (IF um.raised \/ um.id = NoId THEN <<>>
                      ELSE set_featured_image(new_post_id, um.id, item, ln))]

\* the answers of the upload request: those of UploadOutcomes, and "empty", a
\* JSON body that is falsy (line 218 tests it) and so has no id either
UploadAnswers == UploadOutcomes \cup {"empty"}

\* handle_featured_image, the earlier definition (lines 199-222), which the
\* later one replaces in the class: it returns without a source_url (lines
\* 205-206), calls upload_media only with content (line 214) and
\* set_featured_image only after a truthy upload answer (line 218), where
\* uploaded_media['id'] raises KeyError without an id; every exception is caught
handle_featured_image_first(post, new_post_id, item, dl, up, ln, n) ==
    IF post.media # "url"
    THEN [stored |-> FALSE, evs |-> <<>>]
    ELSE LET gm == get_media(item, dl) IN
         IF gm.content = "none"
         THEN [stored |-> FALSE, evs |-> gm.evs]
         ELSE LET um == upload_media(gm.content, item, up, n)
              IN [stored |-> um.stored,
                  evs |-> gm.evs \o um.evs \o
                          (IF um.raised \/ up = "empty" \/ um.id = NoId THEN <<>>
                           ELSE set_featured_image(new_post_id, um.id, item, ln))]

\* a faulty variant of MigrateItem: the progress bar advances for a failed item too
MigrateItem_advance_always(post, item, co, dl, up, ln, np, nm) ==
    LET cp == create_post(post, item, co, np) IN
    IF cp.raised \/ cp.id = NoId
    THEN [outcome |-> "error", posts |-> IF cp.stored THEN 1 ELSE 0, media |-> 0,
          advance |-> 1, evs |-> cp.evs]
    ELSE LET h == handle_featured_image(post, cp.id, item, dl, up, ln, nm)
         IN [outcome |-> "migrated", posts |-> 1, media |-> IF h.stored THEN 1 ELSE 0,
             advance |-> 1, evs |-> cp.evs \o h.evs \o <<Sleep(item)>>]

\* a faulty variant of MigrateItem: the featured image is handled although create_post raised
MigrateItem_media_anyway(post, item, co, dl, up, ln, np, nm) ==
    LET cp == create_post(post, item, co, np)
        h  == handle_featured_image(post, cp.id, item, dl, up, ln, nm)
    IN [outcome |-> IF cp.raised \/ cp.id = NoId THEN "error" ELSE "migrated",
        posts |-> IF cp.stored THEN 1 ELSE 0, media |-> IF h.stored THEN 1 ELSE 0,
        advance |-> IF cp.raised \/ cp.id = NoId THEN 0 ELSE 1,
        evs |-> cp.evs \o h.evs \o <<Sleep(item)>>]

\* a faulty variant of MigrateItem: a failed media step fails the item
MigrateItem_media_fatal(post, item, co, dl, up, ln, np, nm) ==
    LET cp == create_post(post, item, co, np) IN
    IF cp.raised \/ cp.id = NoId
    THEN [outcome |-> "error", posts |-> IF cp.stored THEN 1 ELSE 0, media |-> 0,
          advance |-> 0, evs |-> cp.evs]
    ELSE LET h == handle_featured_image(post, cp.id, item, dl, up, ln, nm)
             linked == \E e \in Range(h.evs) : e.op = "link" /\ e.res = "ok"
         IN IF post.media # "none" /\ ~linked
            THEN [outcome |-> "error", posts |-> 1, media |-> IF h.stored THEN 1 ELSE 0,
                  advance |-> 0, evs |-> cp.evs \o h.evs]
            ELSE [outcome |-> "migrated", posts |-> 1, media |-> IF h.stored THEN 1 ELSE 0,
                  advance |-> 1, evs |-> cp.evs \o h.evs \o <<Sleep(item)>>]

\* lines 332-336 and 361-365: create the record, then the featured image, the
\* progress bar and the pause; an exception of create_post or of
\* new_post['id'] leaves the loop body
MigrateItem(post, item, co, dl, up, ln, np, nm) ==
    LET cp == create_post(post, item, co, np) IN
    IF cp.raised \/ cp.id = NoId
    THEN [outcome |-> "error", posts |-> IF cp.stored THEN 1 ELSE 0, media |-> 0,
          advance |-> 0, evs |-> cp.evs]
    ELSE LET h == handle_featured_image(post, cp.id, item, dl, up, ln, nm)
         IN [outcome |-> "migrated", posts |-> 1, media |-> IF h.stored THEN 1 ELSE 0,
             advance |-> 1, evs |-> cp.evs \o h.evs \o <<Sleep(item)>>]

\* the counts the progress task holds (lines 318-321, 335): all the run reports
ReportedCounts == DOMAIN migration_task \ {"created"}

\* the effect of one item's loop body on the transfer state
Record(item, post, m) ==
    /\ attempted' = Append(attempted, item)
    /\ outcomes' = Append(outcomes, [outcome |-> m.outcome, post |-> post])
    /\ reqs' = reqs \o m.evs
    /\ dest_posts' = dest_posts + m.posts
    /\ dest_media' = dest_media + m.media
    /\ migration_task' = [migration_task EXCEPT !.completed = @ + m.advance]

Skipped(evs) == [outcome |-> "skipped", posts |-> 0, media |-> 0, advance |-> 0, evs |-> evs]
Failed(o)    == [outcome |-> o, posts |-> 0, media |-> 0, advance |-> 0, evs |-> <<>>]

(* ---------------------------- migration orchestrator -------------------- *)
\* lines 323-340: one turn of the loop over post_urls
MigrateUrl ==
    /\ pc = "url_loop"
    /\ idx <= Len(post_urls)
    /\ \E lk \in LookupOutcomes, ft \in FetchOutcomes :
          LET r == get_post_by_url(post_urls[idx], idx, lk, ft) IN
          IF r.post = NullPost
          THEN Record(idx, NullPost, Skipped(r.evs))
          ELSE \E co \in CreateOutcomes, dl \in MediaOutcomes, up \in UploadOutcomes,
                  ln \in LinkOutcomes :
                  LET m == MigrateItem(r.post, idx, co, dl, up, ln, dest_posts, dest_media)
                  IN Record(idx, r.post, [m EXCEPT !.evs = r.evs \o @])
    /\ idx' = idx + 1
    /\ UNCHANGED <<pc, sitemap_calls, api_calls, discovery, fetched, post_urls, page,
                   all_posts, served, page_reqs>>
    /\ UNCHANGED <<send, first_urls, handled>>

\* the loop over post_urls ends: migrate_content returns, main reports success
UrlLoopDone ==
    /\ pc = "url_loop"
    /\ idx > Len(post_urls)
    /\ pc' = "exit0"
    /\ UNCHANGED <<sitemap_calls, api_calls, discovery, fetched, post_urls, page,
                   all_posts, transfer>>
    /\ UNCHANGED <<send, first_urls, handled>>

\* line 368: the handler's own message; post.get('title', {}).get(...) raises
\* AttributeError when the title is not a mapping
HandlerRaises(post) == post.title = "malformed"

\* lines 358-369: one turn of the loop over posts.  Line 360 raises on a post
\* without title['rendered']; an exception raised in the handler leaves
\* migrate_content and main exits with status 1
MigratePost ==
    /\ pc = "post_loop"
    /\ idx <= Len(all_posts)
    /\ LET post == all_posts[idx] IN
       IF post.title # "ok"
       THEN /\ Record(idx, post, Failed(IF HandlerRaises(post) THEN "crashed" ELSE "error"))
            /\ pc' = IF HandlerRaises(post) THEN "exit1" ELSE pc
       ELSE /\ \E co \in CreateOutcomes, dl \in MediaOutcomes, up \in UploadOutcomes,
                  ln \in LinkOutcomes :
                  Record(idx, post, MigrateItem(post, idx, co, dl, up, ln, dest_posts, dest_media))
            /\ UNCHANGED pc
    /\ idx' = idx + 1
    /\ UNCHANGED <<sitemap_calls, api_calls, discovery, fetched, post_urls, page,
                   all_posts, served, page_reqs>>
    /\ UNCHANGED <<send, first_urls, handled>>

\* the loop over posts ends: migrate_content returns, main reports success
PostLoopDone ==
    /\ pc = "post_loop"
    /\ idx > Len(all_posts)
    /\ pc' = "exit0"
    /\ UNCHANGED <<sitemap_calls, api_calls, discovery, fetched, post_urls, page,
                   all_posts, transfer>>
    /\ UNCHANGED <<send, first_urls, handled>>

Next ==
    \/ CallGetSitemapUrls
    \/ ProbeSitemap
    \/ ProbesDone
    \/ ReadSitemap
    \/ SubSitemap
    \/ SubDone
    \/ FilterPostUrls
    \/ Branch
    \/ FetchPage
    \/ ApiReturned
    \/ MigrateUrl
    \/ UrlLoopDone
    \/ MigratePost
    \/ PostLoopDone

Spec == Init /\ [][Next]_vars

(* --------------------------- the session's retries ---------------------- *)
\* line 35: Retry(total=5)
total == 5
\* line 36: backoff_factor=0.5, counted in half seconds
backoff_factor == 1
\* line 37
status_forcelist == {500, 502, 503, 504}
\* lines 34-38 pass no allowed_methods to Retry, so the default of urllib3
\* applies (Retry.DEFAULT_ALLOWED_METHODS): POST is not a member
allowed_methods == {"HEAD", "GET", "PUT", "DELETE", "OPTIONS", "TRACE"}

\* the statuses a server answers with: those of line 37, a success and 404
Statuses == status_forcelist \cup {200, 404}

\* the calls made through self.session, with their method
Calls ==
    {[op |-> o, method |-> "GET"] :
        o \in {"probe", "sitemap", "sub", "lookup", "fetch", "page", "download"}}
    \cup {[op |-> o, method |-> "POST"] : o \in {"create", "upload", "link"}}

\* Retry.is_retry as lines 34-38 configure it: the method has to be retryable
\* and the status in status_forcelist
is_retry(method, status) == method \in allowed_methods /\ status \in status_forcelist

\* Retry.get_backoff_time after n consecutive errors: backoff_factor * 2^(n-1);
\* before the first re-send urllib3 1.x pauses 0, urllib3 2.x backoff_factor
BackoffTimes(n) == IF n = 1 THEN {0, backoff_factor} ELSE {backoff_factor * 2 ^ (n - 1)}

\* a component calls self.session.get or self.session.post
Request ==
    /\ send.state = "idle"
    /\ \E c \in Calls :
          send' = [op |-> c.op, method |-> c.method, statuses |-> <<>>, delays |-> <<>>,
                   state |-> "sending"]
    /\ UNCHANGED <<migration, first_urls, handled>>

\* the adapter of lines 39-40 gets one response: when is_retry holds the retry
\* counter is decremented, an exhausted counter raises (MaxRetryError, for the
\* caller a RetryError), otherwise the adapter pauses and sends again; any
\* other response is handed to the caller
Respond ==
    /\ send.state = "sending"
    /\ \E s \in Statuses :
          LET h == Append(send.statuses, s) IN
          IF is_retry(send.method, s)
          THEN IF Len(h) > total
               THEN send' = [send EXCEPT !.statuses = h, !.state = "raised"]
               ELSE \E d \in BackoffTimes(Len(h)) :
                       send' = [send EXCEPT !.statuses = h, !.delays = Append(@, d)]
          ELSE send' = [send EXCEPT !.statuses = h, !.state = "returned"]
    /\ UNCHANGED <<migration, first_urls, handled>>

NextSend ==
    \/ Request
    \/ Respond

\* one request through the session, from construction
SpecSend == Init /\ [][NextSend]_vars

(* ----------------------- a run after an earlier run --------------------- *)
\* lines 27-40: a new WordPressMigrator holds the two URLs, the credentials,
\* the console and the session; nothing of an earlier run is read back.  What
\* an earlier run leaves behind is at the destination: the records it created
\* and the media it stored.
PriorRecords == 0..MaxPrior

\* a list the other way round: one of the orders list(urls) can give (line 262)
Reverse(l) == [i \in 1..Len(l) |-> l[Len(l) + 1 - i]]

\* the lists get_sitemap_urls can return (line 262) for a source whose
\* documents name two content URLs, one with a post id and one with a slug
ReturnedLists == UNION {Orderings(S) : S \in SUBSET {UrlById, UrlBlogB}}

\* the run at line 314, get_sitemap_urls having returned, against a
\* destination that an earlier run has written to; the source's documents are
\* those of the earlier run, so both runs were given the same set of URLs, each
\* as the list of a set (lines 261-262): of the orders the earlier run can have
\* had, this one and its reverse are taken
InitRerun ==
    /\ pc = "returned"
    /\ sitemap_calls = 1
    /\ api_calls = 0
    /\ probe_i = 1
    /\ sitemap_urls = <<>>
    /\ read_i = 1
    /\ children = <<>>
    /\ urls = {}
    /\ leafSeen = {}
    /\ fetched = <<>>
    /\ post_urls \in ReturnedLists
    /\ page = 1
    /\ all_posts = <<>>
    /\ idx = 1
    /\ migration_task = [created |-> FALSE, total |-> 0, completed |-> 0]
    /\ dest_posts \in PriorRecords
    /\ dest_media = dest_posts
    /\ attempted = <<>>
    /\ outcomes = <<>>
    /\ served = <<>>
    /\ page_reqs = <<>>
    /\ reqs = <<>>
    /\ send = Idle
    /\ first_urls \in {post_urls, Reverse(post_urls)}
    /\ handled = NotCalled

\* migrate_content from line 314 on
NextRerun ==
    \/ Branch
    \/ FetchPage
    \/ ApiReturned
    \/ MigrateUrl
    \/ UrlLoopDone
    \/ MigratePost
    \/ PostLoopDone

SpecRerun == InitRerun /\ [][NextRerun]_vars

(* ------------------ the two definitions of handle_featured_image -------- *)
\* the calls of lines 333 and 362: a post that create_post accepted, the id of
\* the new record, and what the three media requests are answered with
HandledCalls ==
    {[NotCalled EXCEPT !.state = "called", !.post = post, !.new_post_id = PostId(np),
                       !.item = item, !.dl = dl, !.up = up, !.ln = ln, !.n = n] :
        post \in {q \in Posts : q.title = "ok"}, np \in 1..MaxPosts, item \in 1..MaxPosts,
        dl \in MediaOutcomes, up \in UploadAnswers, ln \in LinkOutcomes,
        n \in 0..MaxPosts}

InitHandle ==
    /\ pc = "main"
    /\ sitemap_calls = 0
    /\ api_calls = 0
    /\ probe_i = 1
    /\ sitemap_urls = <<>>
    /\ read_i = 1
    /\ children = <<>>
    /\ urls = {}
    /\ leafSeen = {}
    /\ fetched = <<>>
    /\ post_urls = <<>>
    /\ page = 1
    /\ all_posts = <<>>
    /\ idx = 1
    /\ migration_task = [created |-> FALSE, total |-> 0, completed |-> 0]
    /\ dest_posts = 0
    /\ dest_media = 0
    /\ attempted = <<>>
    /\ outcomes = <<>>
    /\ served = <<>>
    /\ page_reqs = <<>>
    /\ reqs = <<>>
    /\ send = Idle
    /\ first_urls = <<>>
    /\ handled \in HandledCalls

\* the call as the class has it: the definition of lines 371-386
CallInEffect ==
    /\ handled.state = "called"
    /\ ~handled.effect_done
    /\ handled' = [handled EXCEPT
                      !.effect_done = TRUE,
                      !.effect = handle_featured_image(handled.post, handled.new_post_id,
                                     handled.item, handled.dl, handled.up, handled.ln,
                                     handled.n)]
    /\ UNCHANGED <<migration, send, first_urls>>

\* the same call with the definition of lines 199-222
CallFirst ==
    /\ handled.state = "called"
    /\ ~handled.first_done
    /\ handled' = [handled EXCEPT
                      !.first_done = TRUE,
                      !.first = handle_featured_image_first(handled.post, handled.new_post_id,
                                    handled.item, handled.dl, handled.up, handled.ln,
                                    handled.n)]
    /\ UNCHANGED <<migration, send, first_urls>>

NextHandle ==
    \/ CallInEffect
    \/ CallFirst

SpecHandle == InitHandle /\ [][NextHandle]_vars
(* ------------------------------- the claims ----------------------------- *)
Events == 1..Len(reqs)
IsOp(j, op, item) == reqs[j].op = op /\ reqs[j].item = item
\* the number of requests `op` made for the item
Count(op, item) == Cardinality({j \in Events : IsOp(j, op, item)})
MediaOps == {"download", "upload", "link"}
Terminal == {"exit0", "exit1"}

\* C1: every featured-media link request comes after a create request for the
\* same item that succeeded and returned an ID, and targets exactly that ID;
\* hence none is issued for an item without a created record.
C1_LinkAfterCreate ==
    \A j \in Events :
        reqs[j].op = "link" =>
            /\ reqs[j].auth
            /\ \E i \in 1..(j - 1) :
                  /\ IsOp(i, "create", reqs[j].item)
                  /\ reqs[i].res = "ok"
                  /\ reqs[i].id # NoId
                  /\ reqs[j].target = reqs[i].id
            /\ reqs[j].target.kind = "post" /\ reqs[j].target.n <= dest_posts

\* a link request was issued for the second item of a run; the first has a record too
C1_Witness ==
    \E j \in Events : /\ reqs[j].op = "link"
                      /\ reqs[j].item = 2
                      /\ reqs[j].target = PostId(2)

\* C2: in both modes, an item whose loop body ended in the handler of lines
\* 338 / 367 (create_post raised, or its response had no ID) has no media
\* download, upload or link, and directly after it the loop stands at the
\* next item (the run ends only if it was the last one).
C2_NoMediaAfterCreateFails ==
    \A k \in 1..Len(outcomes) :
        outcomes[k].outcome = "error" =>
            /\ \A j \in Events : reqs[j].item = k => reqs[j].op \notin MediaOps \cup {"sleep"}
            /\ \A j \in Events : IsOp(j, "create", k) => reqs[j].res # "ok"
            /\ k = Len(outcomes) =>
                  /\ idx = k + 1
                  /\ pc \in {"url_loop", "post_loop", "exit0"}
                  /\ pc = "exit0" => k = migration_task.total
            /\ k < Len(attempted) => attempted[k + 1] = k + 1

\* the create request of an item with featured media failed with an HTTP
\* error, and the next item was attempted
C2_Witness ==
    \E j \in Events :
        /\ reqs[j].op = "create" /\ reqs[j].res = "error"
        /\ outcomes[reqs[j].item].post.media = "url"
        /\ Len(attempted) > reqs[j].item

\* C3: when the create of an item succeeded and the download of its featured
\* media gave no content, the destination holds the record with its ID, and
\* neither an upload request nor a link request is made for the item.
C3_NoUploadAfterFailedDownload ==
    \A j \in Events :
        reqs[j].op = "download" /\ reqs[j].res = "error" =>
            /\ \E i \in 1..(j - 1) :
                  /\ IsOp(i, "create", reqs[j].item)
                  /\ reqs[i].res = "ok"
                  /\ reqs[i].id.kind = "post"
                  /\ reqs[i].id.n \in 1..dest_posts
            /\ Count("upload", reqs[j].item) = 0
            /\ Count("link", reqs[j].item) = 0

\* a download failed for an item whose loop body has ended as migrated
C3_Witness ==
    \E j \in Events :
        /\ reqs[j].op = "download" /\ reqs[j].res = "error"
        /\ Len(outcomes) >= reqs[j].item
        /\ outcomes[reqs[j].item].outcome = "migrated"

Items == 1..Len(outcomes)
NumOutcome(o) == Cardinality({k \in Items : outcomes[k].outcome = o})
\* the number of items either strategy discovered
Discovered == Len(post_urls) + Len(all_posts)
UpTo(n) == [i \in 1..n |-> i]

\* C4: whatever the items' outcomes, once the transfer phase has begun the
\* run ends normally with every discovered item attempted once, in order.
C4_EveryItemAttempted ==
    pc \in Terminal /\ migration_task.created =>
        pc = "exit0" /\ attempted = UpTo(Discovered)

\* C5: get_sitemap_urls is called first and once; get_all_posts_via_api is
\* called once if it returned the empty list and never otherwise, also when
\* every URL of the list fails to resolve; the items come from one strategy.
C5_OneStrategy ==
    /\ sitemap_calls = IF pc = "main" THEN 0 ELSE 1
    /\ api_calls \in {0, 1}
    /\ api_calls = 1 => post_urls = <<>>
    /\ pc \in {"api", "api_returned", "post_loop"} => api_calls = 1
    /\ pc = "url_loop" => api_calls = 0 /\ post_urls # <<>>
    /\ pc = "exit0" => api_calls = IF post_urls = <<>> THEN 1 ELSE 0
    /\ post_urls = <<>> \/ all_posts = <<>>
    /\ api_calls = 0 => page_reqs = <<>> /\ all_posts = <<>>

\* a run in sitemap mode ended with both its URLs unresolved and no call of the enumerator
C5_Witness ==
    /\ pc = "exit0"
    /\ Len(post_urls) = 2
    /\ NumOutcome("skipped") = 2
    /\ api_calls = 0

\* C6: a run ends with a non-zero status exactly when neither strategy
\* discovered anything.
C6_FailsIffNothingFound ==
    pc \in Terminal => (pc = "exit1" <=> Discovered = 0)

AllResolved == \A k \in Items : outcomes[k].outcome # "skipped"
DestRequests == {j \in Events : reqs[j].site = "dest"}
\* per item: one create; one upload and one link if it has a featured-media
\* source URL, none otherwise
PerItemCounts ==
    \A k \in 1..Len(post_urls) :
        LET m == IF outcomes[k].post.media = "url" THEN 1 ELSE 0
        IN Count("create", k) = 1 /\ Count("upload", k) = m /\ Count("link", k) = m

\* C7 as stated: in sitemap mode, when every URL resolves (to an item with the
\* fields create_post reads) and every destination request succeeds (and
\* returns its ID), there is one create per URL and one upload and one link
\* per item with a featured-media source URL, none for the others.
C7_Original ==
    /\ pc = "exit0" /\ post_urls # <<>>
    /\ AllResolved
    /\ \A k \in Items : outcomes[k].post.title = "ok"
    /\ \A j \in DestRequests : reqs[j].res = "ok"
    => PerItemCounts

\* C7 as amended: the same, when moreover every featured-media download
\* yields content.
C7_Counts ==
    /\ pc = "exit0" /\ post_urls # <<>>
    /\ AllResolved
    /\ \A k \in Items : outcomes[k].post.title = "ok"
    /\ \A j \in Events : reqs[j].op = "download" => reqs[j].res = "ok"
    /\ \A j \in DestRequests : reqs[j].res = "ok"
    => PerItemCounts

\* two URLs, one item with a featured image: 2 creates, 1 upload, 1 link
C7_Witness ==
    /\ pc = "exit0" /\ Len(post_urls) = 2
    /\ AllResolved
    /\ \A j \in Events : reqs[j].site # "none" => reqs[j].res \in {"ok", "match"}
    /\ {outcomes[k].post.media : k \in Items} = {"url", "none"}
    /\ Cardinality({j \in Events : reqs[j].op = "create"}) = 2
    /\ Cardinality({j \in Events : reqs[j].op = "upload"}) = 1
    /\ Cardinality({j \in Events : reqs[j].op = "link"}) = 1

\* the items whose create request the destination answered with success
CreateSucceeded == {k \in Items : \E j \in Events : IsOp(j, "create", k) /\ reqs[j].res # "error"}
\* the items whose create request returned an ID
CreatedWithId == {k \in Items : \E j \in Events : IsOp(j, "create", k) /\ reqs[j].res = "ok"}
Counts == {"attempted", "succeeded", "skipped", "failed"}

ContentPaths == {<<"/", "posts", "/">>, <<"/", "?p=">>, <<"/", "blog", "/">>}
\* get_sitemap_urls ended with the exception of line 261
GetSitemapUrlsRaised == pc = "exit1" /\ api_calls = 0 /\ ~migration_task.created

\* C9: for every set of index documents get_sitemap_urls returns the leaf URLs
\* read from the processed documents that match the content-path filter, each
\* exactly once, and nothing else.
C9_ReturnsFilteredSet ==
    /\ ~GetSitemapUrlsRaised
    /\ pc = "returned" =>
          /\ \A i, j \in 1..Len(post_urls) : post_urls[i] = post_urls[j] => i = j
          /\ Range(post_urls) = {u \in leafSeen : \E c \in ContentPaths : Contains(u, c)}

RECURSIVE Flatten(_)
Flatten(pages) == IF pages = <<>> THEN <<>> ELSE Head(pages) \o Flatten(Tail(pages))

\* C10: when k non-empty pages are followed by an empty page or by HTTP 400,
\* get_all_posts_via_api ends after k+1 requests, for the pages 1..k+1 in
\* order, with one pause after each of the first k, and returns the k pages
\* concatenated in order.
C10_Pagination ==
    pc = "api_returned" /\ page_reqs[Len(page_reqs)].res \in {"empty", "400"} =>
        LET k == Len(served) IN
        /\ Len(page_reqs) = 2 * k + 1
        /\ \A i \in 1..k : /\ page_reqs[2 * i - 1] = PageGet(i, "ok")
                           /\ page_reqs[2 * i].op = "sleep"
        /\ page_reqs[2 * k + 1].op = "page"
        /\ page_reqs[2 * k + 1].item = k + 1
        /\ page = k + 1
        /\ all_posts = Flatten(served)

\* two pages of one post each, then an empty page: three requests
C10_Witness ==
    /\ pc = "api_returned"
    /\ Len(served) = 2
    /\ all_posts = <<Post("ok", "url"), Post("ok", "none")>>
    /\ Len(page_reqs) = 5
    /\ page_reqs[5].res = "empty"

\* C11: when the fetch of page p fails (request error, a status other than
\* 400 that raise_for_status rejects, or a body that does not parse),
\* get_all_posts_via_api asks for no further page, does not raise, and returns
\* exactly the posts of the pages 1..p-1 in order (nothing when p = 1).
C11_FailedPageEndsEnumeration ==
    \A j \in 1..Len(page_reqs) :
        page_reqs[j].op = "page" /\ page_reqs[j].res = "error" =>
            LET p == page_reqs[j].item IN
            /\ j = Len(page_reqs)
            /\ pc # "api"
            /\ pc = "exit1" => migration_task.created
            /\ Len(served) = p - 1
            /\ j = 2 * (p - 1) + 1
            /\ \A i \in 1..(p - 1) : page_reqs[2 * i - 1] = PageGet(i, "ok")
            /\ all_posts = Flatten(served)
            /\ p = 1 => all_posts = <<>>

\* two pages of one post each were served and the third request failed
C11_Witness ==
    /\ pc = "api_returned"
    /\ Len(served) = 2
    /\ Len(page_reqs) = 5
    /\ page_reqs[5] = PageGet(3, "error")
    /\ all_posts = <<Post("ok", "none"), Post("ok", "url")>>

\* C12: every request sent through the session, whichever call makes it (reads
\* of the source and writes to the destination, the create request included),
\* is sent again, after growing pauses, while it is answered with 500, 502,
\* 503 or 504, at most `total` times; it succeeds with the first other answer
\* and raises once the budget is used up; a request answered with 404 is sent
\* exactly once.
C12_EveryRequestRetried ==
    LET h == send.statuses
        n == Len(h) IN
    /\ send.state = "returned" =>
            /\ h[n] \notin status_forcelist
            /\ \A i \in 1..(n - 1) : h[i] \in status_forcelist
            /\ n - 1 <= total
            /\ h[1] = 404 => n = 1
    /\ send.state = "raised" =>
            /\ \A i \in 1..n : h[i] \in status_forcelist
            /\ n - 1 = total
    /\ Len(send.delays) = (IF send.state = "raised" THEN n - 1
                            ELSE IF send.state = "returned" THEN n - 1 ELSE n)
    /\ \A i \in 2..Len(send.delays) : send.delays[i - 1] < send.delays[i]

\* C13: self.auth goes only with the requests to the destination (create,
\* media upload, featured-media update), and with each of them; no request to
\* the source (sitemap probes and fetches, slug lookup, item fetch, page
\* listing) and no media download carries it.
DestOps == {"create", "upload", "link"}
SourceOps == {"lookup", "fetch", "page"}
C13_CredentialsOnlyToDestination ==
    /\ \A j \in Events :
          /\ reqs[j].auth <=> reqs[j].site = "dest"
          /\ reqs[j].site = "dest" <=> reqs[j].op \in DestOps
          /\ reqs[j].op \in SourceOps => reqs[j].site = "source"
          /\ reqs[j].op = "download" => ~reqs[j].auth
    /\ \A j \in 1..Len(page_reqs) :
          ~page_reqs[j].auth /\ page_reqs[j].site \in {"source", "none"}
    /\ \A j \in 1..Len(fetched) :
          ~fetched[j].auth /\ fetched[j].op \in {"probe", "sitemap", "sub"}

\* one URL went through every step: lookup, fetch, create, download, upload, link
C13_Witness ==
    /\ \A op \in {"lookup", "fetch", "create", "download", "upload", "link"} :
          Count(op, 1) = 1
    /\ \E j \in Events : reqs[j].op = "link" /\ reqs[j].res = "ok" /\ reqs[j].auth
    /\ \E j \in Events : reqs[j].op = "download" /\ ~reqs[j].auth

\* C14: in the transfer phase, in both modes, one 1-second pause follows each
\* item before the next item starts, whatever the item's outcome (migrated,
\* skipped as unresolvable, or failed at create).
C14_PauseAfterEveryItem ==
    \A k \in Items :
        outcomes[k].outcome \in {"migrated", "skipped", "error"} =>
            /\ Count("sleep", k) = 1
            /\ \A j \in Events :
                  reqs[j].item = k /\ reqs[j].op # "sleep" =>
                      \E i \in Events : i > j /\ IsOp(i, "sleep", k)

\* C15: a fetch or parse failure of one index document, a probed top-level
\* document or a child of an index-of-indexes, skips that document only: the
\* remaining probed documents are still read, and so are the remaining
\* children of the same index-of-indexes (the loop over the children is not
\* left while a child that line 242 selects is still to visit).
C15_FailureSkipsOneDocument ==
    [][/\ pc = "read" /\ read_i <= Len(sitemap_urls) /\ pc' = "read" =>
              /\ read_i' = read_i + 1
              /\ urls \subseteq urls'
       /\ pc = "sub" /\ children # <<>> /\ Head(children) # None /\ pc' = "read" =>
              \A i \in 2..Len(children) :
                  children[i] = None \/ ~IsPostSitemap(children[i])]_vars

\* C16: get_sitemap_urls never fails: whatever the index documents answer
\* (unreachable, a failing status, unparsable, no content-like URL, a <loc>
\* without text) it returns a list, the empty list when no document is
\* reachable or none gives a content-like URL, and then the orchestrator goes
\* on to the API fallback instead of the run ending in an error.
C16_GetSitemapUrlsNeverFails ==
    /\ pc = "exit1" => api_calls = 1 \/ migration_task.created
    /\ pc = "returned" /\ (\A u \in leafSeen : u = None \/ ~IsPostUrl(u)) =>
            post_urls = <<>>
    /\ sitemap_calls = 1 /\ pc \notin {"probe", "read", "sub", "returned", "exit1"}
        /\ post_urls = <<>> => api_calls = 1

\* C17: get_post_by_url never raises: it returns None when the slug lookup
\* finds nothing or answers a failing status, and when a request fails; for a
\* URL that resolves to None the orchestrator sends no create, upload or link
\* request (nor a download) and goes on with the next URL.
C17_UnresolvedUrlIsSkipped ==
    api_calls = 0 =>
        /\ migration_task.created =>
              /\ pc \in {"url_loop", "exit0"}
              /\ idx = Len(outcomes) + 1
              /\ pc = "exit0" => Len(outcomes) = Len(post_urls)
        /\ \A k \in Items :
              LET unresolved ==
                      \/ \E j \in Events : IsOp(j, "lookup", k) /\ reqs[j].res # "match"
                      \/ \E j \in Events : IsOp(j, "fetch", k) /\ reqs[j].res = "error"
              IN /\ unresolved <=> outcomes[k].outcome = "skipped"
                 /\ unresolved =>
                       /\ outcomes[k].post = NullPost
                       /\ \A j \in Events :
                             reqs[j].item = k => reqs[j].op \in {"lookup", "fetch"}
                       /\ Count("lookup", k) + Count("fetch", k) <= 2
                 /\ (\E j \in Events : IsOp(j, "lookup", k) /\ reqs[j].res # "match")
                        => Count("fetch", k) = 0

\* the first URL's lookup found nothing, the second URL was migrated
C17_Witness ==
    /\ Len(outcomes) = 2
    /\ outcomes[1].outcome = "skipped"
    /\ \E j \in Events : IsOp(j, "lookup", 1) /\ reqs[j].res = "empty"
    /\ outcomes[2].outcome = "migrated"
    /\ Count("create", 2) = 1

\* C18: once an item's create request has succeeded, a failure of a media step
\* (download, upload, link, an upload answer without an id, an embedded media
\* entry without source_url) does not leave handle_featured_image: the item
\* counts as migrated, no request deletes or undoes the created record, and
\* the run goes on to the next item.
MediaFailed(k) ==
    \/ outcomes[k].post.media = "nourl"
    \/ \E j \in Events : IsOp(j, "download", k) /\ reqs[j].res = "error"
    \/ \E j \in Events : IsOp(j, "upload", k) /\ reqs[j].res \in {"error", "noid"}
    \/ \E j \in Events : IsOp(j, "link", k) /\ reqs[j].res = "error"
C18_MediaFailureIsNotFatal ==
    \A k \in Items :
        (\E j \in Events : IsOp(j, "create", k) /\ reqs[j].res = "ok") /\ MediaFailed(k) =>
            /\ outcomes[k].outcome = "migrated"
            /\ migration_task.completed >= Cardinality({i \in 1..k : outcomes[i].outcome = "migrated"})
            /\ \A j \in Events :
                  reqs[j].item = k =>
                      reqs[j].op \in {"lookup", "fetch", "create", "sleep"} \cup MediaOps
            /\ Count("create", k) = 1
            /\ dest_posts >= Cardinality({i \in 1..k : \E j \in Events :
                                              IsOp(j, "create", i) /\ reqs[j].res = "ok"})
            /\ k = Len(outcomes) => pc \in {"url_loop", "post_loop", "exit0"} /\ idx = k + 1

\* the first item's upload failed after its create succeeded, and the second
\* item was handled after it
C18_Witness ==
    /\ Len(outcomes) = 2
    /\ \E j \in Events : IsOp(j, "create", 1) /\ reqs[j].res = "ok"
    /\ \E j \in Events : IsOp(j, "upload", 1) /\ reqs[j].res = "error"
    /\ outcomes[1].outcome = "migrated"
    /\ Count("create", 2) = 1

\* C19: for an index-of-indexes get_sitemap_urls fetches exactly the children
\* whose reference contains 'post' in any letter case, in order, and never the
\* others; it goes one level down only: the entries of a child document are
\* added to the URLs and are never queued or fetched as documents, also when
\* an entry names a sitemap.
HasPost(text) == \E i \in 1..Len(text) : text[i] \in {"post", "Post"}
C19_OnlyPostChildrenOneLevel ==
    [][pc = "sub" /\ children # <<>> =>
          LET c == Head(children) IN
          /\ fetched' # fetched <=> c # None /\ HasPost(c)
          /\ fetched' # fetched => fetched' = Append(fetched, Get("sub", c))
          /\ children' \in {Tail(children), <<>>}
          /\ leafSeen \subseteq leafSeen'
          /\ (leafSeen' \ leafSeen) \subseteq urls'
          /\ urls \subseteq urls'
          /\ pc' \in {"sub", "read"}]_vars

\* an index with a child written 'Post' and a child without 'post': one child
\* request was sent, its document named a sitemap, and nothing is left to visit
C19_Witness ==
    /\ pc = "sub"
    /\ children = <<>>
    /\ fetched = <<Get("sitemap", sitemap_urls[read_i]), Get("sub", SubUpper)>>
    /\ SubPost \in leafSeen
    /\ SubPost \in urls

\* the create requests of the run, and the URLs they are for (sitemap mode)
CreateRequest(k) == [op |-> "create", item |-> k, site |-> "dest", auth |-> TRUE,
                     arg |-> None, target |-> NoId]
RequestOf(e) == [f \in DOMAIN CreateRequest(0) |-> e[f]]
Creates == SelectSeq(reqs, LAMBDA e : e.op = "create")
CreatedUrls == [j \in 1..Len(Creates) |-> post_urls[Creates[j].item]]
\* the URLs the earlier run sent its create requests for, in its order: the
\* responses being the same, the same URLs resolve to a post with a title
FirstCreatedUrls == SelectSeq(first_urls, LAMBDA u : u \in Range(CreatedUrls))
SitemapRunEnded == pc = "exit0" /\ api_calls = 0 /\ migration_task.created

\* C20 as stated: the migrator carries nothing from one run to the next: a
\* second run against the same source responses attempts every item again and
\* sends the same sequence of create requests as the first run, also for the
\* items the first run created.
C20_Original ==
    /\ \A k \in Items :
          Count("create", k) = (IF outcomes[k].post.title = "ok" THEN 1 ELSE 0)
    /\ SitemapRunEnded => CreatedUrls = FirstCreatedUrls

\* C20, amended: a run against a destination that an earlier run has written to
\* attempts every item of the earlier run again and sends the create requests
\* that the source's responses alone determine, one for each item that
\* resolves to a post with a title, also for the items the earlier run
\* created, in the order of its own list of items; no item is passed over
\* because the destination holds it.
C20_RerunRepeatsCreates ==
    /\ attempted = UpTo(Len(outcomes))
    /\ pc = "exit0" => Len(attempted) = Discovered
    /\ SitemapRunEnded => {post_urls[k] : k \in Items} = Range(first_urls)
    /\ \A k \in Items :
          Count("create", k) = (IF outcomes[k].post.title = "ok" THEN 1 ELSE 0)
    /\ \A j \in 1..Len(Creates) :
          /\ RequestOf(Creates[j]) = CreateRequest(Creates[j].item)
          /\ j > 1 => Creates[j - 1].item < Creates[j].item
    /\ dest_posts >= Len(SelectSeq(Creates, LAMBDA e : e.res # "error"))

\* the destination held a record of an earlier run; both URLs were attempted
\* again, in the other order, and a create request was sent for each
C20_Witness ==
    /\ SitemapRunEnded
    /\ Len(outcomes) = 2
    /\ first_urls = <<post_urls[2], post_urls[1]>>
    /\ Count("create", 1) = 1 /\ Count("create", 2) = 1
    /\ \A j \in 1..Len(Creates) : Creates[j].res = "ok"
    /\ dest_posts = 3

\* C21: the handle_featured_image in effect (lines 371-386) and the earlier,
\* null-checking definition (lines 199-222) have the same network effects: for
\* every item and every outcome of download, upload and link both send the
\* same sequence of media download, destination upload and destination link
\* requests (and leave the same media at the destination), and neither lets an
\* exception escape: each call returns.
C21_SameNetworkEffects ==
    handled.effect_done /\ handled.first_done =>
        /\ handled.effect.evs = handled.first.evs
        /\ handled.effect.stored = handled.first.stored
        /\ handled.state = "called"
        /\ \A i \in 1..Len(handled.effect.evs) :
              /\ handled.effect.evs[i].op \in MediaOps
              /\ handled.effect.evs[i].item = handled.item
        /\ handled.dl = "none" =>
              \A i \in 1..Len(handled.first.evs) : handled.first.evs[i].op = "download"

\* a download without content: both definitions stop after the download, the
\* later one because upload_media raises before its request
C21_Witness ==
    /\ handled.effect_done /\ handled.first_done
    /\ handled.post.media = "url"
    /\ handled.dl = "none"
    /\ Len(handled.effect.evs) = 1
    /\ handled.effect.evs[1].op = "download"
    /\ handled.first.evs = handled.effect.evs

====
